---- MODULE Spec2Model ----
(***************************************************************************)
(* Model of distar/bin/play.py: the launch-configuration pipeline of       *)
(* main().  One run of the script is one behaviour: the command line, the  *)
(* process environment, the platform, the filesystem, the availability of  *)
(* the torch backends and the content of user_config.yaml are inputs fixed *)
(* in the initial state; every block of main() is one action.              *)
(*                                                                         *)
(* Python strings on which the code computes (model names, model paths,    *)
(* player ids) are sequences of one-character strings, so that             *)
(* os.path.join, os.path.basename, str.split and the "in" substring test   *)
(* are computed as Python computes them.  Strings that are only compared   *)
(* (SC2PATH, platform, device, race, game type) are TLA+ strings.          *)
(***************************************************************************)
EXTENDS Integers, Sequences, FiniteSets, TLC

(***************************************************************************)
(* Character strings                                                       *)
(***************************************************************************)
Sep == "/"
Dot == "."

\* Python's None for an optional character string (args.model1, args.model2)
NoneStr == <<"<None>">>
\* Python's None for an optional plain string (absent --game_type / --race)
None == "<None>"

sDefault   == <<"d","e","f","a","u","l","t">>
sPth       == <<".","p","t","h">>
sRlModel   == <<"r","l","_","m","o","d","e","l",".","p","t","h">>
sBot       == <<"b","o","t">>
sBot10     == <<"b","o","t","1","0">>
sHuman     == <<"h","u","m","a","n">>
sModel1    == <<"m","o","d","e","l","1">>

\* os.path.join(a, b) on POSIX: an absolute b discards a
Join(a, b) ==
    IF Len(b) > 0 /\ b[1] = Sep THEN b
    ELSE IF Len(a) = 0 \/ a[Len(a)] = Sep THEN a \o b
    ELSE a \o <<Sep>> \o b

\* positions of character c in s
Positions(s, c) == {i \in 1..Len(s) : s[i] = c}

Max(S) == CHOOSE x \in S : \A y \in S : y <= x
Min(S) == CHOOSE x \in S : \A y \in S : x <= y

\* os.path.basename(p): what follows the last separator
Basename(p) ==
    IF Positions(p, Sep) = {} THEN p
    ELSE SubSeq(p, Max(Positions(p, Sep)) + 1, Len(p))

\* s.split(".")[0]: what precedes the first dot
SplitDotFirst(s) ==
    IF Positions(s, Dot) = {} THEN s
    ELSE SubSeq(s, 1, Min(Positions(s, Dot)) - 1)

\* sub in s  (Python substring test)
Contains(sub, s) ==
    \E i \in 0..(Len(s) - Len(sub)) : SubSeq(s, i + 1, i + Len(sub)) = sub

\* bool(s) of an optional string: None and "" are falsy
Truthy(s) == s # NoneStr /\ Len(s) > 0

(***************************************************************************)
(* Fixed values of the program                                             *)
(***************************************************************************)
\* os.path.dirname(__file__): the directory holding play.py
ScriptDir == <<"/","d">>
mac_default_sc2 == "/Applications/StarCraft II"
GameTypes == {"agent_vs_agent", "agent_vs_bot", "human_vs_agent"}
Races == {"zerg", "protoss", "terran"}
default_model_path == Join(ScriptDir, sRlModel)

(***************************************************************************)
(* Input domains                                                           *)
(***************************************************************************)
nFoo  == <<"f","o","o">>
nBot7 == <<"b","o","t","7">>
nDotted == <<"a",".","b">>
nAbs  == <<"/","m">>
ModelNames == {nFoo, nBot7, nDotted, nAbs}
\* a concrete model path already written in user_config.yaml
ConcretePath == <<"/","k",".","p","t","h">>
ModelFiles == {Join(ScriptDir, n \o sPth) : n \in ModelNames}
                 \cup {default_model_path, ConcretePath}

GoodSC2 == "/games/SC2"
NoSC2 == "/tmp/nodir"
NoEnv == [k \in {} |-> ""]
Environs == {NoEnv, [SC2PATH |-> ""], [SC2PATH |-> GoodSC2], [SC2PATH |-> NoSC2]}
Platforms == {"darwin", "linux"}
DirSets == SUBSET {GoodSC2, mac_default_sc2}

\* longest races list of user_config.yaml considered (at least the two sides)
MaxRaces == 3
BaseRaces == {[i \in 1..n |-> r] : n \in 2..MaxRaces, r \in Races}

\* device settings user_config.yaml may hold
BaseDevices == {[device |-> "mps", use_mps |-> TRUE, use_cuda |-> FALSE],
                [device |-> "cuda", use_mps |-> FALSE, use_cuda |-> TRUE],
                [device |-> "cpu", use_mps |-> FALSE, use_cuda |-> FALSE],
                [device |-> "cuda", use_mps |-> TRUE, use_cuda |-> TRUE]}

BaseConfig(dev, m1, m2, races) ==
    [actor |-> [job_type |-> "train", episode_num |-> 0,
                device |-> dev.device, use_mps |-> dev.use_mps,
                use_cuda |-> dev.use_cuda,
                model_paths |-> [model1 |-> m1, model2 |-> m2],
                player_ids |-> << >>],
     env |-> [realtime |-> FALSE, races |-> races, player_ids |-> << >>],
     common |-> [type |-> "train"]]

Argv(m1, m2, cpu, gt, race) ==
    [model1 |-> m1, model2 |-> m2, cpu |-> cpu, game_type |-> gt, race |-> race]

VARIABLES
    pc,             \* position in main()
    argv,           \* command line: what the caller gave (None when absent)
    environ,        \* os.environ restricted to SC2PATH
    platform,       \* sys.platform
    dirs,           \* directories that exist
    fs,             \* model files that exist
    mps_available,  \* torch.backends.mps.is_available()
    cuda_available, \* torch.cuda.is_available()
    base_config,    \* content of user_config.yaml
    args,           \* argparse namespace
    user_config,    \* the configuration being assembled
    probes,         \* availability probes called so far, in order
    model1, model2, \* locals of main()
    actor,          \* the Actor constructed, with the configuration it got
    run_count,      \* number of calls of Actor.run()
    error           \* the exception that ended the run, if any

inputs == <<argv, platform, dirs, fs, mps_available, cuda_available, base_config>>
vars == <<pc, argv, environ, platform, dirs, fs, mps_available, cuda_available,
          base_config, args, user_config, probes, model1, model2, actor,
          run_count, error>>

NoArgs == [parsed |-> FALSE]
NoConfig == [loaded |-> FALSE]
NoActor == [constructed |-> FALSE]
NoError == [type |-> "none", slot |-> "", path |-> << >>]

(***************************************************************************)
(* Initial states.  The inputs of a run are fixed before main() starts.    *)
(* Each group of inputs is enumerated exhaustively against a small choice  *)
(* of the others.                                                          *)
(***************************************************************************)
InitWith(A, E, P, D, F, M, C, B) ==
    /\ argv \in A
    /\ environ \in E
    /\ platform \in P
    /\ dirs \in D
    /\ fs \in F
    /\ mps_available \in M
    /\ cuda_available \in C
    /\ base_config \in B
    /\ pc = "start"
    /\ args = NoArgs
    /\ user_config = NoConfig
    /\ probes = << >>
    /\ model1 = NoneStr
    /\ model2 = NoneStr
    /\ actor = NoActor
    /\ run_count = 0
    /\ error = NoError

\* the baseline of load_default_config(), with a two-entry races list
DefaultDevice == [device |-> "mps", use_mps |-> TRUE, use_cuda |-> FALSE]
DefaultBase == BaseConfig(DefaultDevice, sDefault, sDefault, <<"zerg", "zerg">>)

\* every environment, platform and directory layout
InitEnvironment ==
    InitWith({Argv(m1, NoneStr, FALSE, gt, None) :
                  m1 \in {NoneStr, nFoo}, gt \in {None, "agent_vs_bot"}},
             Environs, Platforms, DirSets, {ModelFiles, {}},
             {FALSE}, BOOLEAN, {DefaultBase})

\* every --cpu / MPS / CUDA combination over every base device setting
InitDevice ==
    InitWith({Argv(NoneStr, NoneStr, cpu, gt, None) :
                  cpu \in BOOLEAN, gt \in {None} \cup GameTypes},
             {[SC2PATH |-> GoodSC2]}, {"linux"}, {{GoodSC2}}, {ModelFiles},
             BOOLEAN, BOOLEAN,
             {BaseConfig(d, sDefault, ConcretePath, <<"terran", "zerg">>) :
                  d \in BaseDevices})

\* every pair of model arguments, base model paths and set of existing files
InitModels ==
    InitWith({Argv(m1, m2, FALSE, gt, None) :
                  m1 \in ModelNames \cup {NoneStr},
                  m2 \in ModelNames \cup {NoneStr},
                  gt \in {None, "agent_vs_agent", "agent_vs_bot"}},
             {NoEnv}, {"darwin"}, {{mac_default_sc2}}, SUBSET ModelFiles,
             {FALSE}, {FALSE},
             {BaseConfig(DefaultDevice, b1, b2, <<"protoss", "terran">>) :
                  b1 \in {sDefault, ConcretePath},
                  b2 \in {sDefault, ConcretePath}})

\* every game type and race over every base races list
InitRaces ==
    InitWith({Argv(NoneStr, m2, FALSE, gt, r) :
                  m2 \in {NoneStr, nBot7},
                  gt \in {None} \cup GameTypes, r \in {None} \cup Races},
             {[SC2PATH |-> GoodSC2]}, {"linux"}, {{GoodSC2}},
             {ModelFiles, ModelFiles \ {Join(ScriptDir, nBot7 \o sPth)}},
             {FALSE}, {TRUE},
             {BaseConfig(DefaultDevice, sDefault, sDefault, rs) :
                  rs \in BaseRaces})

Init == InitEnvironment \/ InitDevice \/ InitModels \/ InitRaces

(***************************************************************************)
(* Helpers of the actions                                                  *)
(***************************************************************************)
\* raise an exception out of main(): the process ends
Raise(type, slot, path) ==
    /\ error' = [type |-> type, slot |-> slot, path |-> path]
    /\ pc' = "error"

\* os.environ.get(k, d)
EnvGet(k, d) == IF k \in DOMAIN environ THEN environ[k] ELSE d

\* os.environ[k] = v
EnvSet(k, v) == [x \in DOMAIN environ \cup {k} |-> IF x = k THEN v ELSE environ[x]]

\* bug: every path passes for a directory
IsDir_Always(p) == TRUE

\* os.path.isdir(p)
IsDir(p) == p \in dirs

\* bug: the existence check never fails
Exists_Always(p) == TRUE

\* os.path.exists(p) for a model file
Exists(p) == p \in fs

(***************************************************************************)
(* parser.parse_args(): defaults of --game_type and --race                 *)
(***************************************************************************)
ParsedArgs(a) ==
    [model1 |-> a.model1, model2 |-> a.model2, cpu |-> a.cpu,
     game_type |-> IF a.game_type = None THEN "human_vs_agent" ELSE a.game_type,
     race |-> IF a.race = None THEN "zerg" ELSE a.race]

ParseArgs ==
    /\ pc = "start"
    /\ args' = ParsedArgs(argv)
    /\ pc' = "env"
    /\ UNCHANGED <<inputs, environ, user_config, probes, model1, model2,
                   actor, run_count, error>>

(***************************************************************************)
(* "Ensure SC2PATH is found"                                               *)
(***************************************************************************)
LocateEnvironment ==
    /\ pc = "env"
    /\ LET sc2path == EnvGet("SC2PATH", "") IN
       IF sc2path = ""
       THEN IF platform = "darwin"
            THEN IF IsDir(mac_default_sc2)
                 THEN /\ environ' = EnvSet("SC2PATH", mac_default_sc2)
                      /\ pc' = "load"
                      /\ UNCHANGED error
                 ELSE /\ Raise("EnvironmentError", "", << >>)
                      /\ UNCHANGED environ
            ELSE /\ Raise("EnvironmentError", "", << >>)
                 /\ UNCHANGED environ
       ELSE IF ~IsDir(sc2path)
            THEN /\ Raise("NotADirectoryError", "", << >>)
                 /\ UNCHANGED environ
            ELSE /\ pc' = "load"
                 /\ UNCHANGED <<environ, error>>
    /\ UNCHANGED <<inputs, args, user_config, probes, model1, model2,
                   actor, run_count>>

(***************************************************************************)
(* read_config(user_config.yaml) and the fixed overrides                   *)
(***************************************************************************)
LoadConfig ==
    /\ pc = "load"
    /\ user_config' = [base_config EXCEPT !.actor.job_type = "eval_test",
                                          !.common.type = "play",
                                          !.actor.episode_num = 1,
                                          !.env.realtime = TRUE]
    /\ pc' = "device"
    /\ UNCHANGED <<inputs, environ, args, probes, model1, model2, actor,
                   run_count, error>>

(***************************************************************************)
(* "Decide device: MPS > CUDA > CPU"                                       *)
(***************************************************************************)

\* bug: the CUDA branch leaves use_mps at the True of the default configuration
DeviceSettings_StaleMps(cpu, mps, cuda) ==
    IF cpu THEN [device |-> "cpu", use_mps |-> FALSE, use_cuda |-> FALSE]
    ELSE IF mps THEN [device |-> "mps", use_mps |-> TRUE, use_cuda |-> FALSE]
    ELSE IF cuda THEN [device |-> "cuda", use_mps |-> TRUE, use_cuda |-> TRUE]
    ELSE [device |-> "cpu", use_mps |-> FALSE, use_cuda |-> FALSE]

\* bug: CUDA is probed before MPS
DeviceSettings_CudaFirst(cpu, mps, cuda) ==
    IF cpu THEN [device |-> "cpu", use_mps |-> FALSE, use_cuda |-> FALSE]
    ELSE IF cuda THEN [device |-> "cuda", use_mps |-> FALSE, use_cuda |-> TRUE]
    ELSE IF mps THEN [device |-> "mps", use_mps |-> TRUE, use_cuda |-> FALSE]
    ELSE [device |-> "cpu", use_mps |-> FALSE, use_cuda |-> FALSE]

\* the three settings each branch writes
DeviceSettings(cpu, mps, cuda) ==
    IF cpu THEN [device |-> "cpu", use_mps |-> FALSE, use_cuda |-> FALSE]
    ELSE IF mps THEN [device |-> "mps", use_mps |-> TRUE, use_cuda |-> FALSE]
    ELSE IF cuda THEN [device |-> "cuda", use_mps |-> FALSE, use_cuda |-> TRUE]
    ELSE [device |-> "cpu", use_mps |-> FALSE, use_cuda |-> FALSE]

\* the probes the if/elif chain evaluates
ProbesCalled(cpu, mps) ==
    IF cpu THEN << >>
    ELSE IF mps THEN <<"mps">>
    ELSE <<"mps", "cuda">>

SelectDevice ==
    /\ pc = "device"
    /\ LET d == DeviceSettings(args.cpu, mps_available, cuda_available) IN
       user_config' = [user_config EXCEPT !.actor.device = d.device,
                                          !.actor.use_mps = d.use_mps,
                                          !.actor.use_cuda = d.use_cuda]
    /\ probes' = probes \o ProbesCalled(args.cpu, mps_available)
    /\ pc' = "resolve1"
    /\ UNCHANGED <<inputs, environ, args, model1, model2, actor, run_count,
                   error>>

(***************************************************************************)
(* "Model paths & checks"                                                  *)
(***************************************************************************)

\* bug: the "default" sentinel of the configuration wins over the argument
ResolveSlot_SentinelFirst(arg, current) ==
    IF current = sDefault THEN default_model_path
    ELSE IF arg # NoneStr THEN Join(ScriptDir, arg \o sPth)
    ELSE current

\* the value a slot and its local end with, from the argument and the
\* value the configuration holds
ResolveSlot(arg, current) ==
    LET v == IF arg # NoneStr THEN Join(ScriptDir, arg \o sPth) ELSE current
    IN IF v = sDefault THEN default_model_path ELSE v

ResolveModel1 ==
    /\ pc = "resolve1"
    /\ LET m == ResolveSlot(args.model1, user_config.actor.model_paths.model1) IN
       /\ model1' = m
       /\ user_config' = [user_config EXCEPT !.actor.model_paths.model1 = m]
    /\ pc' = "resolve2"
    /\ UNCHANGED <<inputs, environ, args, probes, model2, actor, run_count,
                   error>>

ResolveModel2 ==
    /\ pc = "resolve2"
    /\ LET m == ResolveSlot(args.model2, user_config.actor.model_paths.model2) IN
       /\ model2' = m
       /\ user_config' = [user_config EXCEPT !.actor.model_paths.model2 = m]
    /\ pc' = "check1"
    /\ UNCHANGED <<inputs, environ, args, probes, model1, actor, run_count,
                   error>>

\* bug: model1 is not checked
CheckModel1_NoCheck ==
    /\ pc = "check1"
    /\ pc' = "check2"
    /\ UNCHANGED <<inputs, environ, args, user_config, probes, model1, model2,
                   actor, run_count, error>>


CheckModel1 ==
    /\ pc = "check1"
    /\ IF ~Exists(model1)
       THEN Raise("FileNotFoundError", "Model1", model1)
       ELSE pc' = "check2" /\ UNCHANGED error
    /\ UNCHANGED <<inputs, environ, args, user_config, probes, model1, model2,
                   actor, run_count>>

CheckModel2 ==
    /\ pc = "check2"
    /\ IF ~Exists(model2)
       THEN Raise("FileNotFoundError", "Model2", model2)
       ELSE pc' = "race" /\ UNCHANGED error
    /\ UNCHANGED <<inputs, environ, args, user_config, probes, model1, model2,
                   actor, run_count>>

(***************************************************************************)
(* user_config["env"]["races"][1] = args.race  (Python index 1 is the      *)
(* second entry, position 2 of a TLA+ sequence)                            *)
(***************************************************************************)

\* bug: the first entry is written
OverrideRace_FirstEntry(races, race) == [races EXCEPT ![1] = race]


OverrideRace(races, race) == [races EXCEPT ![2] = race]

SetRace ==
    /\ pc = "race"
    /\ user_config' = [user_config EXCEPT
                          !.env.races = OverrideRace(user_config.env.races, args.race)]
    /\ pc' = "players"
    /\ UNCHANGED <<inputs, environ, args, probes, model1, model2, actor,
                   run_count, error>>

(***************************************************************************)
(* "Game type logic"                                                       *)
(***************************************************************************)

\* bug: the extension is kept
PlayerId_KeepExtension(p) == Basename(p)

\* os.path.basename(p).split(".")[0]
PlayerId(p) == SplitDotFirst(Basename(p))

\* bot_level of the agent_vs_bot branch
BotLevel(m2arg) == IF Truthy(m2arg) /\ Contains(sBot, m2arg) THEN m2arg ELSE sBot10

ResolvePlayers ==
    /\ pc = "players"
    /\ user_config' =
         IF args.game_type = "agent_vs_agent"
         THEN [user_config EXCEPT
                  !.env.player_ids = <<PlayerId(model1), PlayerId(model2)>>]
         ELSE IF args.game_type = "agent_vs_bot"
         THEN [user_config EXCEPT
                  !.actor.player_ids = <<sModel1>>,
                  !.env.player_ids = <<PlayerId(model1), BotLevel(args.model2)>>]
         ELSE IF args.game_type = "human_vs_agent"
         THEN [user_config EXCEPT
                  !.actor.player_ids = <<sModel1>>,
                  !.env.player_ids = <<PlayerId(model1), sHuman>>]
         ELSE user_config
    /\ pc' = "create"
    /\ UNCHANGED <<inputs, environ, args, probes, model1, model2, actor,
                   run_count, error>>

(***************************************************************************)
(* "Create Actor & Run"                                                    *)
(***************************************************************************)
CreateActor ==
    /\ pc = "create"
    /\ actor' = [constructed |-> TRUE, cfg |-> user_config]
    /\ pc' = "run"
    /\ UNCHANGED <<inputs, environ, args, user_config, probes, model1, model2,
                   run_count, error>>

RunActor ==
    /\ pc = "run"
    /\ run_count' = run_count + 1
    /\ pc' = "returned"
    /\ UNCHANGED <<inputs, environ, args, user_config, probes, model1, model2,
                   actor, error>>

(***************************************************************************)
(* After main() returns the script reads the name actor at module level,   *)
(* where it is not bound (it is a local of main): NameError.               *)
(***************************************************************************)
ParseLogs ==
    /\ pc = "returned"
    /\ Raise("NameError", "", << >>)
    /\ UNCHANGED <<inputs, environ, args, user_config, probes, model1, model2,
                   actor, run_count>>

Next ==
    \/ ParseArgs
    \/ LocateEnvironment
    \/ LoadConfig
    \/ SelectDevice
    \/ ResolveModel1
    \/ ResolveModel2
    \/ CheckModel1
    \/ CheckModel2
    \/ SetRace
    \/ ResolvePlayers
    \/ CreateActor
    \/ RunActor
    \/ ParseLogs

Spec == Init /\ [][Next]_vars

(***************************************************************************)
(* Properties                                                              *)
(***************************************************************************)
EnvErrors == {"EnvironmentError", "NotADirectoryError"}
ModelNotFound == "FileNotFoundError"

\* the configuration has been handed to Actor(...)
Handoff == actor.constructed

\* positions of main() before the device / a model slot has been written
BeforeDevice == {"start", "env", "load", "device"}
BeforeSlot1 == BeforeDevice \cup {"resolve1"}
BeforeSlot2 == BeforeSlot1 \cup {"resolve2"}
BeforeChecks == BeforeSlot2 \cup {"check1", "check2"}

DeviceDone == user_config # NoConfig /\ pc \notin BeforeDevice
Slot1Done == user_config # NoConfig /\ pc \notin BeforeSlot1
Slot2Done == user_config # NoConfig /\ pc \notin BeforeSlot2

\* SC2PATH names an existing directory
EnvironmentGood ==
    "SC2PATH" \in DOMAIN environ /\ environ["SC2PATH"] \in dirs

\* the path <ScriptDir>/<name>.pth written out
InScriptDir(name) == ScriptDir \o <<"/">> \o name \o <<".","p","t","h">>
sRlModelPath == ScriptDir \o <<"/","r","l","_","m","o","d","e","l",".","p","t","h">>
sRlModelId == <<"r","l","_","m","o","d","e","l">>

\* a file name without its extension (what follows the last dot)
StripExtension(s) ==
    IF Positions(s, Dot) = {} THEN s
    ELSE SubSeq(s, 1, Max(Positions(s, Dot)) - 1)

----------------------------------------------------------------------------
\* C1: Actor(user_config).run() is called at most once, and only with
\* SC2PATH naming an existing directory and both resolved model paths
\* existing; whenever the environment check or a model existence check
\* fails the run has ended with that error and no Actor was constructed.
C1_RunnerOnlyAfterChecks ==
    /\ run_count <= 1
    /\ run_count > 0 => Handoff
    /\ Handoff =>
          /\ EnvironmentGood
          /\ actor.cfg.actor.model_paths.model1 \in fs
          /\ actor.cfg.actor.model_paths.model2 \in fs
    /\ pc \notin {"start", "env"} =>
          (~EnvironmentGood <=> error.type \in EnvErrors)
    /\ (pc \notin BeforeChecks /\ error.type \notin EnvErrors) =>
          ((model1 \notin fs \/ model2 \notin fs) <=> error.type = ModelNotFound)
    /\ error.type \in EnvErrors \cup {ModelNotFound} =>
          (pc = "error" /\ ~Handoff /\ run_count = 0)

\* the runner ran once, with the macOS default written into SC2PATH
C1_Witness ==
    /\ run_count = 1
    /\ platform = "darwin"
    /\ environ = [SC2PATH |-> mac_default_sc2]

----------------------------------------------------------------------------
\* C2 as stated: at handoff exactly one of the backend flags use_mps,
\* use_cuda is true and the device field agrees, also when the device is cpu.
C2_ExactlyOneFlag ==
    Handoff =>
        LET a == actor.cfg.actor IN
        /\ (a.use_mps /\ ~a.use_cuda) \/ (a.use_cuda /\ ~a.use_mps)
        /\ a.use_mps <=> a.device = "mps"
        /\ a.use_cuda <=> a.device = "cuda"

\* C2 amended: at handoff the flags agree with the device (use_mps exactly
\* when the device is mps, use_cuda exactly when it is cuda), at most one
\* flag is true, and no flag is true when the device is cpu.
C2_FlagsAgreeWithDevice ==
    Handoff =>
        LET a == actor.cfg.actor IN
        /\ a.device \in {"cpu", "mps", "cuda"}
        /\ ~(a.use_mps /\ a.use_cuda)
        /\ a.use_mps <=> a.device = "mps"
        /\ a.use_cuda <=> a.device = "cuda"
        /\ a.device = "cpu" => (~a.use_mps /\ ~a.use_cuda)

\* handoff with cpu selected as the fallback (no --cpu), no flag true, over
\* a base configuration that had both flags set
C2_Witness ==
    /\ Handoff
    /\ ~argv.cpu
    /\ base_config.actor.use_mps /\ base_config.actor.use_cuda
    /\ actor.cfg.actor.device = "cpu"
    /\ ~actor.cfg.actor.use_cuda
    /\ ~actor.cfg.actor.use_mps

----------------------------------------------------------------------------
\* C3: the device is a total function of (--cpu, MPS available, CUDA
\* available): cpu without any probe when --cpu is given; otherwise mps when
\* MPS is available, else cuda when CUDA is available, else cpu.  It is one
\* of cpu, mps, cuda and replaces what the base configuration held.
C3_DeviceFunction ==
    DeviceDone =>
        LET a == user_config.actor IN
        /\ a.device \in {"cpu", "mps", "cuda"}
        /\ argv.cpu => (a.device = "cpu" /\ probes = << >>)
        /\ (~argv.cpu /\ mps_available) => a.device = "mps"
        /\ (~argv.cpu /\ ~mps_available /\ cuda_available) => a.device = "cuda"
        /\ (~argv.cpu /\ ~mps_available /\ ~cuda_available) => a.device = "cpu"
        /\ a.use_mps = (a.device = "mps")
        /\ a.use_cuda = (a.device = "cuda")

\* mps selected with CUDA available too, over a base configuration set to cuda
C3_Witness ==
    /\ DeviceDone
    /\ ~argv.cpu /\ mps_available /\ cuda_available
    /\ base_config.actor.device = "cuda" /\ base_config.actor.use_cuda
    /\ user_config.actor.device = "mps"
    /\ ~user_config.actor.use_cuda

----------------------------------------------------------------------------
\* what every step of the locator leaves behind, whatever its outcome
LocatorFailureIsFinal ==
    /\ pc # "error"
    /\ error'.type \in EnvErrors =>
          /\ pc' = "error"
          /\ user_config' = NoConfig /\ probes' = << >>
          /\ model1' = NoneStr /\ model2' = NoneStr
          /\ ~actor'.constructed

\* C4 as stated: SC2PATH unset fails with EnvironmentNotFound off darwin and
\* on darwin without the default directory, and otherwise takes the default;
\* SC2PATH set to a non-directory fails with InvalidEnvironmentPath on every
\* platform; SC2PATH set to a directory succeeds unchanged; after a failure
\* no later stage runs.
C4_LocatorOutcome ==
    [][/\ LocatorFailureIsFinal
       /\ pc = "env" =>
            LET unset == "SC2PATH" \notin DOMAIN environ IN
            /\ (unset /\ platform # "darwin") =>
                  (error'.type = "EnvironmentError" /\ environ' = environ)
            /\ (unset /\ platform = "darwin" /\ mac_default_sc2 \notin dirs) =>
                  (error'.type = "EnvironmentError" /\ environ' = environ)
            /\ (unset /\ platform = "darwin" /\ mac_default_sc2 \in dirs) =>
                  (pc' = "load" /\ environ' = [SC2PATH |-> mac_default_sc2])
            /\ (~unset /\ environ["SC2PATH"] \notin dirs) =>
                  (error'.type = "NotADirectoryError" /\ environ' = environ)
            /\ (~unset /\ environ["SC2PATH"] \in dirs) =>
                  (pc' = "load" /\ environ' = environ /\ error' = NoError)
      ]_vars

\* C4 amended: an SC2PATH that is set to the empty string is treated as
\* unset (EnvironmentNotFound, or the darwin default); InvalidEnvironmentPath
\* is the outcome for a non-empty SC2PATH that is not a directory.
C4_LocatorOutcomeEmptyIsUnset ==
    [][/\ LocatorFailureIsFinal
       /\ pc = "env" =>
            LET unset == \/ "SC2PATH" \notin DOMAIN environ
                         \/ environ["SC2PATH"] = ""
            IN
            /\ (unset /\ platform # "darwin") =>
                  (error'.type = "EnvironmentError" /\ environ' = environ)
            /\ (unset /\ platform = "darwin" /\ mac_default_sc2 \notin dirs) =>
                  (error'.type = "EnvironmentError" /\ environ' = environ)
            /\ (unset /\ platform = "darwin" /\ mac_default_sc2 \in dirs) =>
                  (pc' = "load" /\ environ' = [SC2PATH |-> mac_default_sc2])
            /\ (~unset /\ environ["SC2PATH"] \notin dirs) =>
                  (error'.type = "NotADirectoryError" /\ environ' = environ)
            /\ (~unset /\ environ["SC2PATH"] \in dirs) =>
                  (pc' = "load" /\ environ' = environ /\ error' = NoError)
      ]_vars

\* the locator met an SC2PATH set to the empty string, off darwin, and
\* failed as for an unset one
C4_Witness ==
    /\ error.type = "EnvironmentError"
    /\ platform = "linux"
    /\ environ = [SC2PATH |-> ""]
    /\ user_config = NoConfig

----------------------------------------------------------------------------
\* the value the claim gives a resolved slot, from the argument and the
\* value user_config.yaml holds for the slot
C5_Claimed(arg, base) ==
    IF arg # NoneStr THEN InScriptDir(arg)
    ELSE IF base = sDefault THEN sRlModelPath
    ELSE base

\* the same, with an argument that is an absolute path taken as it is
C5_Amended(arg, base) ==
    IF arg # NoneStr /\ Len(arg) > 0 /\ arg[1] = "/" THEN arg \o <<".","p","t","h">>
    ELSE C5_Claimed(arg, base)

\* C5 as stated: each slot, independently of the other, resolves to
\* <script directory>/N.pth when the caller gave the name N, else to the
\* default model path when the configuration holds "default", else to the
\* value the configuration holds; resolving a resolved slot again without
\* an argument changes nothing.
C5_SlotResolution ==
    /\ Slot1Done =>
          /\ user_config.actor.model_paths.model1 =
                C5_Claimed(argv.model1, base_config.actor.model_paths.model1)
          /\ model1 = user_config.actor.model_paths.model1
          /\ ResolveSlot(NoneStr, model1) = model1
    /\ Slot2Done =>
          /\ user_config.actor.model_paths.model2 =
                C5_Claimed(argv.model2, base_config.actor.model_paths.model2)
          /\ model2 = user_config.actor.model_paths.model2
          /\ ResolveSlot(NoneStr, model2) = model2

\* C5 amended: as stated for every name N that does not begin with "/"; a
\* name that begins with "/" is an absolute path and resolves to N.pth
\* itself, outside the script directory.
C5_SlotResolutionRelativeNames ==
    /\ Slot1Done =>
          /\ user_config.actor.model_paths.model1 =
                C5_Amended(argv.model1, base_config.actor.model_paths.model1)
          /\ model1 = user_config.actor.model_paths.model1
          /\ ResolveSlot(NoneStr, model1) = model1
    /\ Slot2Done =>
          /\ user_config.actor.model_paths.model2 =
                C5_Amended(argv.model2, base_config.actor.model_paths.model2)
          /\ model2 = user_config.actor.model_paths.model2
          /\ ResolveSlot(NoneStr, model2) = model2

\* both slots resolved: model1 from the argument foo over a "default" base
\* value, model2 kept at the concrete path of the configuration
C5_Witness ==
    /\ Slot2Done
    /\ argv.model1 = nFoo /\ base_config.actor.model_paths.model1 = sDefault
    /\ argv.model2 = NoneStr /\ base_config.actor.model_paths.model2 = ConcretePath
    /\ model1 = InScriptDir(nFoo)
    /\ model2 = ConcretePath

----------------------------------------------------------------------------
\* C6: in agent_vs_bot the second player id is the --model2 string when it
\* contains "bot" and bot10 otherwise, the first is the id of model1, and
\* the outcome does not depend on a file named after --model2 existing: no
\* run of this mode given a bot as --model2 ends with model2 not found.
C6_BotSideNeedsNoFile ==
    /\ (Handoff /\ args.game_type = "agent_vs_bot") =>
          /\ Len(actor.cfg.env.player_ids) = 2
          /\ actor.cfg.env.player_ids[1] = PlayerId(model1)
          /\ actor.cfg.env.player_ids[2] =
                IF argv.model2 # NoneStr /\ Contains(sBot, argv.model2)
                THEN argv.model2 ELSE sBot10
    /\ (args # NoArgs /\ args.game_type = "agent_vs_bot"
          /\ argv.model2 # NoneStr /\ Contains(sBot, argv.model2)) =>
          ~(error.type = ModelNotFound /\ error.slot = "Model2")

----------------------------------------------------------------------------
\* C7: in agent_vs_agent with both names given, the player ids at handoff
\* are the base file names of model1 and model2 without their extension,
\* in that order, and the device is cpu when no accelerator is available
\* and --cpu is absent; a missing model file ends the run with
\* ModelNotFound.
C7_AgentVsAgentIds ==
    /\ (Handoff /\ args.game_type = "agent_vs_agent"
          /\ argv.model1 # NoneStr /\ argv.model2 # NoneStr) =>
          /\ actor.cfg.env.player_ids =
                <<StripExtension(Basename(actor.cfg.actor.model_paths.model1)),
                  StripExtension(Basename(actor.cfg.actor.model_paths.model2))>>
          /\ (~argv.cpu /\ ~mps_available /\ ~cuda_available) =>
                actor.cfg.actor.device = "cpu"
    /\ (args # NoArgs /\ args.game_type = "agent_vs_agent"
          /\ pc \notin BeforeChecks /\ error.type \notin EnvErrors
          /\ (model1 \notin fs \/ model2 \notin fs)) =>
          error.type = ModelNotFound

----------------------------------------------------------------------------
\* C8: human_vs_agent is the mode when --game_type is absent; with both
\* slots defaulted the player ids at handoff are [rl_model, human]; the
\* second id is "human" whatever model2 is, yet model2 is resolved and
\* checked: a missing model2 (model1 existing) ends the run with
\* ModelNotFound for model2.
C8_HumanVsAgent ==
    /\ (args # NoArgs /\ argv.game_type = None) => args.game_type = "human_vs_agent"
    /\ (Handoff /\ args.game_type = "human_vs_agent") =>
          /\ Len(actor.cfg.env.player_ids) = 2
          /\ actor.cfg.env.player_ids[2] = sHuman
          /\ actor.cfg.actor.model_paths.model2 \in fs
          /\ (/\ argv.model1 = NoneStr /\ argv.model2 = NoneStr
              /\ base_config.actor.model_paths.model1 = sDefault
              /\ base_config.actor.model_paths.model2 = sDefault) =>
                actor.cfg.env.player_ids = <<sRlModelId, sHuman>>
    /\ (args # NoArgs /\ args.game_type = "human_vs_agent"
          /\ pc \notin BeforeChecks /\ error.type \notin EnvErrors
          /\ model1 \in fs /\ model2 \notin fs) =>
          error = [type |-> ModelNotFound, slot |-> "Model2", path |-> model2]

\* handoff in the default mode with both slots defaulted
C8_Witness ==
    /\ Handoff
    /\ argv.game_type = None
    /\ argv.model1 = NoneStr /\ argv.model2 = NoneStr
    /\ base_config.actor.model_paths.model1 = sDefault
    /\ base_config.actor.model_paths.model2 = sDefault
    /\ actor.cfg.env.player_ids = <<sRlModelId, sHuman>>

----------------------------------------------------------------------------
----------------------------------------------------------------------------
\* what C10 says of every error but a missing model1
C10_Common ==
    /\ error # NoError <=> pc = "error"
    /\ error.type \in EnvErrors =>
          (user_config = NoConfig /\ probes = << >>
             /\ model1 = NoneStr /\ model2 = NoneStr)
    /\ (error.type = ModelNotFound /\ error.slot = "Model2") =>
          (error.path = model2 /\ model2 \notin fs /\ model1 \in fs)
    /\ (Slot2Done /\ pc \notin {"check1", "check2"}
          /\ model1 \notin fs /\ model2 \notin fs) =>
          (error.type = ModelNotFound /\ error.slot = "Model1")
    /\ error.type = ModelNotFound => error.slot \in {"Model1", "Model2"}

\* C10 as stated: the first failure in pipeline order is the one error of
\* the run; a missing model1 is raised naming model1 and its path right
\* after model1 is resolved, before the model2 slot is resolved.
C10_FirstFailureWins ==
    /\ C10_Common
    /\ (error.type = ModelNotFound /\ error.slot = "Model1") =>
          /\ error.path = model1 /\ model1 \notin fs
          /\ model2 = NoneStr
          /\ user_config.actor.model_paths.model2 =
                base_config.actor.model_paths.model2

\* the state part of C10 amended
C10_RaisedAfterBothResolved ==
    /\ C10_Common
    /\ (error.type = ModelNotFound /\ error.slot = "Model1") =>
          /\ error.path = model1 /\ model1 \notin fs
          /\ model2 = user_config.actor.model_paths.model2
          /\ model2 = C5_Amended(argv.model2, base_config.actor.model_paths.model2)
          /\ user_config.env.races = base_config.env.races
          /\ user_config.env.player_ids = base_config.env.player_ids
          /\ user_config.actor.player_ids = base_config.actor.player_ids

\* C10 amended: as stated, except that a missing model1 is raised after both
\* slots have been resolved and written into the configuration (and before
\* the race and the player ids are written); an error, once raised, is the
\* only one of the run.
C10_FirstFailureWinsAfterResolution ==
    /\ []C10_RaisedAfterBothResolved
    /\ [][error # NoError => error' = error]_vars

\* both model files missing, model2 given on the command line: model1 is
\* the one reported, with the model2 slot already resolved
C10_Witness ==
    /\ error.type = ModelNotFound /\ error.slot = "Model1"
    /\ argv.model2 = nFoo
    /\ model2 = InScriptDir(nFoo)
    /\ model2 \notin fs

====
